---- MODULE Spec2Model ----
(***************************************************************************)
(* Warehouse order dashboard (src/app.py): the two flat files, the token   *)
(* registry, the access resolver and the dashboard page, as state          *)
(* machines.                                                               *)
(*                                                                         *)
(* Text is modelled as sequences of one-character strings wherever the     *)
(* code looks inside it (OrderID, tokens, query-string values); a column   *)
(* whose values the code only compares for equality holds plain strings.   *)
(* Timestamps are integers (one unit = one hour of the UTC clock).         *)
(***************************************************************************)
EXTENDS Integers, Sequences, FiniteSets, TLC

VARIABLES
    masterFile,   \* data/master_orders.csv : [exists, rows]
    tokFile,      \* tokens/tokens.csv      : [exists, rows]
    OWNER_KEY,    \* the configured owner secret (st.secrets), a character sequence
    now,          \* datetime.utcnow()
    run,          \* what the last run of the script resolved and rendered
    gen,          \* per issuer: the position inside generate_token and its locals
    val,          \* the last validate_token call and what it returned
    issued,       \* history: the issuances that have returned to their callers
    edited        \* history: some earlier run applied an update to its df

vars == <<masterFile, tokFile, OWNER_KEY, now, run, gen, val, issued, edited>>

-----------------------------------------------------------------------------
(* Bounds of the model *)

MaxTime == 3
MaxTtl == 2
MaxTokRows == 2
MaxRows == 2
NumStreams == 5
NumIssuers == 2

(* Program constants *)

RowsPerWarehouse == 50
OrderBase == 1000

CLIENT_COMPANY == "Agriculture & Forestry"
Warehouses == <<"VIC", "NSW", "SA">>
StatusChoices == <<"Open", "Processing", "Shipped", "Invoiced">>
PriorityChoices == <<"Low", "Medium", "High">>

-----------------------------------------------------------------------------
(* Text helpers *)

Range(s) == {s[i] : i \in DOMAIN s}

DigitChar == <<"0", "1", "2", "3", "4", "5", "6", "7", "8", "9">>

\* str(n) for n >= 0, as the f-strings of seed_data format it
RECURSIVE Dec(_)
Dec(n) == IF n < 10 THEN <<DigitChar[n + 1]>>
          ELSE Dec(n \div 10) \o <<DigitChar[(n % 10) + 1]>>

WhChars(wh) ==
    CASE wh = "VIC" -> <<"V", "I", "C">>
      [] wh = "NSW" -> <<"N", "S", "W">>
      [] wh = "SA"  -> <<"S", "A">>

CustomerPrefix == <<"C", "u", "s", "t", "o", "m", "e", "r", "-">>

Absent == [exists |-> FALSE, rows |-> <<>>]
File(rows) == [exists |-> TRUE, rows |-> rows]

-----------------------------------------------------------------------------
(* seed_data *)

\* One np.random.choice stream: what it yields for the i-th row of a warehouse.
\* The generator is abstracted to NumStreams fixed streams per warehouse.
DrawStatus(s, i) == StatusChoices[((i * (s + 1) + s) % 4) + 1]
DrawPriority(s, i) == PriorityChoices[((i + 2 * s) % 3) + 1]

Draws == [1..3 -> 0..(NumStreams - 1)]

seed_row(w, i, draw, t) ==
    [OrderID   |-> WhChars(Warehouses[w]) \o <<"-">> \o Dec(OrderBase + i),
     Warehouse |-> Warehouses[w],
     Customer  |-> CustomerPrefix \o Dec(i + 1),
     Status    |-> DrawStatus(draw[w], i),
     Priority  |-> DrawPriority(draw[w], i),
     InvoiceNo |-> "",
     UpdatedBy |-> "seed",
     UpdatedAt |-> t]

seed_rows_short(draw, t) ==
    [k \in 1..(3 * (RowsPerWarehouse - 1)) |->
        seed_row(((k - 1) \div (RowsPerWarehouse - 1)) + 1,
                 (k - 1) % (RowsPerWarehouse - 1), draw, t)]

\* for wh in [...]: for i in range(50): rows.append({...})
seed_rows(draw, t) ==
    [k \in 1..(3 * RowsPerWarehouse) |->
        seed_row(((k - 1) \div RowsPerWarehouse) + 1,
                 (k - 1) % RowsPerWarehouse, draw, t)]

seed_master(f, draw, t) ==
    IF ~f.exists THEN File(seed_rows(draw, t)) ELSE f

seed_tokens(f) ==
    IF ~f.exists THEN File(<<>>) ELSE f

-----------------------------------------------------------------------------
(* The token registry: tokens.csv through pandas *)

TokenHexBytes == 8

DecimalDigits == {"0", "1", "2", "3", "4", "5", "6", "7", "8", "9"}

\* A token of 2 * TokenHexBytes hex characters that starts with `prefix`
Tok(prefix) ==
    prefix \o [k \in 1..(2 * TokenHexBytes - Len(prefix)) |-> "7"]

\* secrets.token_hex(8): the outputs the model draws from. One holds a letter,
\* one is all decimal digits, one is all decimal digits with a leading zero.
TokenHexOutputs == {Tok(<<"a">>), Tok(<<"1">>), Tok(<<"0">>)}

Roles == {"viewer", "editor"}

\* An expires_at cell: ISO text of time t, or text fromisoformat rejects
Iso(t) == [iso |-> TRUE, t |-> t]
Malformed == [iso |-> FALSE, t |-> 0]

AllDigits(s) == s # <<>> /\ \A i \in DOMAIN s : s[i] \in DecimalDigits

\* str(int(s)): the decimal text of an all-digit cell after integer inference
RECURSIVE StripZeros(_)
StripZeros(s) ==
    IF Len(s) > 1 /\ s[1] = "0" THEN StripZeros(Tail(s)) ELSE s

\* pd.read_csv(TOK_FILE), no dtype: a token column whose every cell is decimal
\* digits is inferred int64, otherwise the cells stay str.
IntColumn(rows) == rows # <<>> /\ \A i \in DOMAIN rows : AllDigits(rows[i].token)

read_csv(rows) ==
    [i \in DOMAIN rows |->
        [rows[i] EXCEPT !.token =
            IF IntColumn(rows)
            THEN [int |-> TRUE, text |-> StripZeros(rows[i].token)]
            ELSE [int |-> FALSE, text |-> rows[i].token]]]

\* df.to_csv(TOK_FILE, index=False): every cell written as its str()
to_csv(df) ==
    [i \in DOMAIN df |-> [df[i] EXCEPT !.token = df[i].token.text]]

\* df["token"] == token, token a str: an int64 cell never equals a str
TokenEq(cell, token) == ~cell.int /\ cell.text = token

\* line 99 and lines 101-104: the row generate_token appends
token_row(token, role, exp, created) ==
    [token |-> [int |-> FALSE, text |-> token], role |-> role,
     company |-> CLIENT_COMPANY, expires_at |-> Iso(exp), created_at |-> created]

\* df.loc[len(df)] = {...}
append_row(df, row) == Append(df, row)

\* validate_token: <<>> is None, <<r>> is the row r. fromisoformat raising is
\* swallowed by the bare except, and the row is returned.
validate_token(rows, token, t) ==
    IF token = <<>> THEN <<>>
    ELSE LET df == read_csv(rows)
             row == SelectSeq(df, LAMBDA r : TokenEq(r.token, token))
         IN  IF row = <<>> THEN <<>>
             ELSE IF row[1].expires_at.iso /\ t > row[1].expires_at.t THEN <<>>
             ELSE <<row[1]>>

-----------------------------------------------------------------------------
(* load_master *)

\* Cells pandas reads as missing (default na_values); fillna("") empties them
NaStrings == {"", "NA", "NaN", "null"}
NaTexts == {<<>>, <<"N", "A">>, <<"N", "a", "N">>, <<"n", "u", "l", "l">>}

FillStr(c) == IF c \in NaStrings THEN "" ELSE c
FillText(c) == IF c \in NaTexts THEN <<>> ELSE c

\* pd.read_csv(MASTER_FILE, dtype=str).fillna("")
load_master(f) ==
    [i \in DOMAIN f.rows |->
        [OrderID   |-> FillText(f.rows[i].OrderID),
         Warehouse |-> FillStr(f.rows[i].Warehouse),
         Customer  |-> FillText(f.rows[i].Customer),
         Status    |-> FillStr(f.rows[i].Status),
         Priority  |-> FillStr(f.rows[i].Priority),
         InvoiceNo |-> FillStr(f.rows[i].InvoiceNo),
         UpdatedBy |-> FillStr(f.rows[i].UpdatedBy),
         UpdatedAt |-> f.rows[i].UpdatedAt]]

-----------------------------------------------------------------------------
(* The access resolver (app entry) *)

NoParam == [present |-> FALSE, value |-> <<>>]
Param(v) == [present |-> TRUE, value |-> v]

\* st.query_params[key] is the parameter's value, a str; [0] is its first
\* character, and raises IndexError on the empty string.
FirstChar(v) == <<v[1]>>

Access(status, mode, role, company) ==
    [status |-> status, mode |-> mode, role |-> role, company |-> company]

resolve_access(qs, key, tokrows, t) ==
    IF qs.admin.present /\ qs.admin.value = <<>>
    THEN Access("exception", "guest", "viewer", CLIENT_COMPANY)
    ELSE IF qs.admin.present /\ FirstChar(qs.admin.value) = key
    THEN Access("ok", "owner", "owner", CLIENT_COMPANY)
    ELSE IF ~qs.token.present
    THEN Access("ok", "guest", "viewer", CLIENT_COMPANY)
    ELSE IF qs.token.value = <<>>
    THEN Access("exception", "guest", "viewer", CLIENT_COMPANY)
    ELSE LET info == validate_token(tokrows, FirstChar(qs.token.value), t)
         IN  IF info # <<>>
             THEN Access("ok", "client", info[1].role, info[1].company)
             ELSE Access("ok", "guest", "viewer", CLIENT_COMPANY)

-----------------------------------------------------------------------------
(* dashboard_page *)

\* sorted(df[col].unique()): the options of a multiselect
Unique(df, col) == {df[i][col] : i \in DOMAIN df}

\* re.search(pat, s) for patterns of literal characters and the wildcard "."
MatchAt(pat, s, i) ==
    /\ i + Len(pat) - 1 <= Len(s)
    /\ \A k \in DOMAIN pat : pat[k] = "." \/ pat[k] = s[i + k - 1]

regex_contains(s, pat) == \E i \in 1..(Len(s) + 1) : MatchAt(pat, s, i)

\* lines 155-156: the displayed rows
filter_rows(df, w) ==
    LET q == SelectSeq(df, LAMBDA r : /\ r.Warehouse \in w.wh
                                      /\ r.Status \in w.stt
                                      /\ r.Priority \in w.pr)
    IN  IF w.search # <<>>
        THEN SelectSeq(q, LAMBDA r : regex_contains(r.OrderID, w.search))
        ELSE q

Count(df, status) == Cardinality({i \in DOMAIN df : df[i].Status = status})

\* The Shipped metric fed with the Invoiced count
kpis_swapped(df) ==
    [s \in Range(StatusChoices) |->
        Count(df, IF s = "Shipped" THEN "Invoiced" ELSE s)]

\* lines 161-164: the four metrics
kpis(df) == [s \in Range(StatusChoices) |-> Count(df, s)]

\* df.index[df["OrderID"]==oid].tolist()
match_idx(df, oid) == {i \in DOMAIN df : df[i].OrderID = oid}

Min(S) == CHOOSE x \in S : \A y \in S : x <= y

\* The update applied to every row that has the OrderID of row i
apply_update_all(df, i, w, role, t) ==
    [j \in DOMAIN df |->
        IF df[j].OrderID = df[i].OrderID
        THEN [df[j] EXCEPT !.Status = w.new_status, !.InvoiceNo = w.new_inv,
                           !.UpdatedBy = role, !.UpdatedAt = t]
        ELSE df[j]]

\* lines 177-181
apply_update(df, i, w, role, t) ==
    [df EXCEPT ![i] = [@ EXCEPT !.Status = w.new_status,
                                !.InvoiceNo = w.new_inv,
                                !.UpdatedBy = role,
                                !.UpdatedAt = t]]

\* lines 166-182: whether the form is shown, the table after the click, the message
update_form(df, role, w, t) ==
    IF role \notin {"editor", "owner"}
    THEN [form |-> FALSE, df |-> df, msg |-> "none"]
    ELSE IF ~w.click
    THEN [form |-> TRUE, df |-> df, msg |-> "none"]
    ELSE IF match_idx(df, w.upd_oid) = {}
    THEN [form |-> TRUE, df |-> df, msg |-> "Order not found"]
    ELSE [form |-> TRUE,
          df |-> apply_update(df, Min(match_idx(df, w.upd_oid)), w, role, t),
          msg |-> "Updated"]

NoKpis == [s \in Range(StatusChoices) |-> 0]

NoWidgets ==
    [wh |-> {}, stt |-> {}, pr |-> {}, search |-> <<>>, click |-> FALSE,
     upd_oid |-> <<>>, new_status |-> "Open", new_inv |-> ""]

NoQs == [admin |-> NoParam, token |-> NoParam]

NoRun ==
    [status |-> "none", qs |-> NoQs, page |-> "none", w |-> NoWidgets,
     mode |-> "guest", role |-> "viewer", company |-> CLIENT_COMPANY,
     df_all |-> <<>>, q |-> <<>>, kpi |-> NoKpis, form |-> FALSE,
     df |-> <<>>, msg |-> "none"]

\* One run of the script from line 121 on, the files already seeded
script_run(qs, page, w, key, master, tokrows, t) ==
    LET a == resolve_access(qs, key, tokrows, t)
        df == load_master(master)
        u == update_form(df, a.role, w, t)
    IN  IF a.status = "exception"
        THEN [NoRun EXCEPT !.status = "exception", !.qs = qs, !.page = page]
        ELSE IF page = "FAQ"
        THEN [NoRun EXCEPT !.status = "ok", !.qs = qs, !.page = page,
                           !.mode = a.mode, !.role = a.role,
                           !.company = a.company, !.df_all = df]
        ELSE [status |-> "ok", qs |-> qs, page |-> page, w |-> w,
              mode |-> a.mode, role |-> a.role, company |-> a.company,
              df_all |-> df, q |-> filter_rows(df, w), kpi |-> kpis(df),
              form |-> u.form, df |-> u.df, msg |-> u.msg]

-----------------------------------------------------------------------------
(* Files the program may find on disk when it starts *)

SeqsUpTo(S, n) == UNION {[1..k -> S] : k \in 0..n}

Order(oid, wh, status, priority, inv) ==
    [OrderID |-> oid, Warehouse |-> wh, Customer |-> CustomerPrefix \o <<"1">>,
     Status |-> status, Priority |-> priority, InvoiceNo |-> inv,
     UpdatedBy |-> "seed", UpdatedAt |-> 0]

RowPool ==
    {Order(<<"V", "1">>, "VIC", "Open", "Low", ""),
     Order(<<"V", "2">>, "VIC", "Shipped", "High", "NA"),
     Order(<<"N", "1">>, "NSW", "Invoiced", "Low", "INV1")}

StoredTables == SeqsUpTo(RowPool, MaxRows)

StoredRow(token, role, expires_at) ==
    [token |-> token, role |-> role, company |-> CLIENT_COMPANY,
     expires_at |-> expires_at, created_at |-> 0]

RegistryPool ==
    {StoredRow(Tok(<<"a">>), "editor", Iso(2)),
     StoredRow(Tok(<<"b">>), "editor", Malformed)}

StoredRegistries == SeqsUpTo(RegistryPool, 1)

DefaultOwnerKey == <<"a", "d", "m", "i", "n", "1", "2", "3", "4", "5">>

Issuers == 1..NumIssuers

Idle == [pc |-> "idle", token |-> <<>>, role |-> "viewer", exp |-> 0,
         df |-> <<>>, seen |-> <<>>]

NoCall == [called |-> FALSE, token |-> <<>>, at |-> 0, result |-> <<>>]

\* No random number is drawn when the order file exists
DrawsNeeded(f) == IF f.exists THEN {[w \in 1..3 |-> 0]} ELSE Draws

-----------------------------------------------------------------------------
(* seed_data on its own, from any combination of present and absent files *)

InitSeed ==
    /\ masterFile \in {Absent} \cup {File(t) : t \in StoredTables}
    /\ tokFile \in {Absent} \cup {File(r) : r \in StoredRegistries}
    /\ OWNER_KEY = DefaultOwnerKey
    /\ now = 1
    /\ run = NoRun
    /\ gen = [p \in Issuers |-> Idle]
    /\ val = NoCall
    /\ issued = <<>>
    /\ edited = FALSE

seed_data ==
    /\ \E draw \in DrawsNeeded(masterFile) :
          masterFile' = seed_master(masterFile, draw, now)
    /\ tokFile' = seed_tokens(tokFile)
    /\ UNCHANGED <<OWNER_KEY, now, run, gen, val, issued, edited>>

NextSeed == seed_data

SpecSeed == InitSeed /\ [][NextSeed]_vars

\* C8: seed_data on an absent order file writes exactly 150 records, 50 for each
\* of VIC, NSW and SA, with pairwise distinct OrderIDs, every Status and every
\* Priority among the enumerated values; a file that is present is left as it
\* is, and after one run both files are present, so further runs change nothing.
SeededTable(rows) ==
    /\ Len(rows) = 150
    /\ \A wh \in {"VIC", "NSW", "SA"} :
          Cardinality({i \in DOMAIN rows : rows[i].Warehouse = wh}) = 50
    /\ \A i \in DOMAIN rows : rows[i].Warehouse \in {"VIC", "NSW", "SA"}
    /\ \A i, j \in DOMAIN rows : i # j => rows[i].OrderID # rows[j].OrderID
    /\ \A i \in DOMAIN rows :
          /\ rows[i].Status \in {"Open", "Processing", "Shipped", "Invoiced"}
          /\ rows[i].Priority \in {"Low", "Medium", "High"}

C8_SeedData ==
    [][/\ ~masterFile.exists => SeededTable(masterFile'.rows)
       /\ masterFile.exists => masterFile' = masterFile
       /\ tokFile.exists => tokFile' = tokFile
       /\ masterFile'.exists /\ tokFile'.exists]_vars

C8_Witness ==
    /\ masterFile.exists /\ SeededTable(masterFile.rows)
    /\ masterFile.rows[1].OrderID = <<"V", "I", "C", "-", "1", "0", "0", "0">>
    /\ masterFile.rows[150].OrderID = <<"S", "A", "-", "1", "0", "4", "9">>
    /\ tokFile.exists

-----------------------------------------------------------------------------
(* The registry used by one caller at a time *)

\* generate_token, lines 98-106, run without interruption
generate_token(rows, token, role, exp, created) ==
    to_csv(append_row(read_csv(rows), token_row(token, role, exp, created)))

InitRegistry ==
    /\ masterFile = File(<<>>)
    /\ tokFile \in {File(r) : r \in StoredRegistries}
    /\ OWNER_KEY = DefaultOwnerKey
    /\ now = 0
    /\ run = NoRun
    /\ gen = [p \in Issuers |-> Idle]
    /\ val = NoCall
    /\ issued = <<>>
    /\ edited = FALSE

Issue(role, hours, token) ==
    /\ Len(tokFile.rows) < MaxTokRows
    /\ tokFile' = File(generate_token(tokFile.rows, token, role, now + hours, now))
    /\ issued' = Append(issued, [token |-> token, role |-> role,
                                 exp |-> now + hours, at |-> now])
    /\ val' = NoCall
    /\ UNCHANGED <<masterFile, OWNER_KEY, now, run, gen, edited>>

Validate(token) ==
    /\ val' = [called |-> TRUE, token |-> token, at |-> now,
               result |-> validate_token(tokFile.rows, token, now)]
    /\ UNCHANGED <<masterFile, tokFile, OWNER_KEY, now, run, gen, issued, edited>>

Tick ==
    /\ now < MaxTime
    /\ now' = now + 1
    /\ UNCHANGED <<masterFile, tokFile, OWNER_KEY, run, gen, val, issued, edited>>

ValidateInputs == TokenHexOutputs \cup {Tok(<<"b">>), <<>>}

NextRegistry ==
    \/ \E role \in Roles, hours \in 1..MaxTtl, token \in TokenHexOutputs :
          Issue(role, hours, token)
    \/ \E token \in ValidateInputs : Validate(token)
    \/ Tick

SpecRegistry == InitRegistry /\ [][NextRegistry]_vars

\* C1: validate_token returns a row if and only if the registry holds a row with
\* exactly that token whose expires_at parses and is strictly later than the
\* current time; in every other case it returns None.
C1_ValidateIff ==
    val.called =>
        (val.result # <<>> <=>
            \E i \in DOMAIN tokFile.rows :
                /\ tokFile.rows[i].token = val.token
                /\ tokFile.rows[i].expires_at.iso
                /\ tokFile.rows[i].expires_at.t > val.at)

LastIssued == issued[Len(issued)]

\* token_hex returned `token` once, and no stored row held it before
NoCollision(token) ==
    /\ Cardinality({k \in DOMAIN issued : issued[k].token = token}) = 1
    /\ token \notin {r.token : r \in RegistryPool}

\* C2, first half: validating a token at the moment generate_token returned it
\* succeeds and yields the role given at issuance and the configured company.
C2_IssueThenValidate ==
    (val.called /\ issued # <<>> /\ val.token = LastIssued.token
                /\ val.at = LastIssued.at /\ NoCollision(val.token))
        => /\ val.result # <<>>
           /\ val.result[1].role = LastIssued.role
           /\ val.result[1].company = CLIENT_COMPANY

\* C2, second half: once the clock is past the expiry of an issued token,
\* validating it returns invalid, whatever was issued in between.
C2_ExpiredIsInvalid ==
    (val.called /\ NoCollision(val.token)
                /\ \E k \in DOMAIN issued :
                      issued[k].token = val.token /\ val.at > issued[k].exp)
        => val.result = <<>>

\* C2: an issued token validates at once with its role and company, and is
\* invalid at every time after its expiry.
C2_IssueValidateExpire == C2_IssueThenValidate /\ C2_ExpiredIsInvalid

-----------------------------------------------------------------------------
(* The registry used by several callers at once: generate_token holds no lock *)

\* lines 98-100: draw the token, compute the expiry, read the whole file
GenRead(p, role, hours, token) ==
    /\ gen[p].pc = "idle"
    /\ gen' = [gen EXCEPT ![p] = [pc |-> "write", token |-> token, role |-> role,
                                  exp |-> now + hours,
                                  df |-> read_csv(tokFile.rows),
                                  seen |-> tokFile.rows]]
    /\ UNCHANGED <<masterFile, tokFile, OWNER_KEY, now, run, val, issued, edited>>

\* lines 101-106: append the row, rewrite the whole file, return
GenWrite(p) ==
    /\ gen[p].pc = "write"
    /\ tokFile' = File(to_csv(append_row(gen[p].df,
                     token_row(gen[p].token, gen[p].role, gen[p].exp, now))))
    /\ gen' = [gen EXCEPT ![p].pc = "done"]
    /\ issued' = Append(issued, [token |-> gen[p].token, role |-> gen[p].role,
                                 exp |-> gen[p].exp, at |-> now])
    /\ val' = NoCall
    /\ UNCHANGED <<masterFile, OWNER_KEY, now, run, edited>>

NextRace ==
    \/ \E p \in Issuers, role \in Roles, hours \in 1..MaxTtl,
          token \in TokenHexOutputs : GenRead(p, role, hours, token)
    \/ \E p \in Issuers : GenWrite(p)
    \/ \E token \in ValidateInputs : Validate(token)

SpecRace == InitRegistry /\ [][NextRace]_vars

\* C9, issuances one after another: an issuance that writes the file it read
\* (nobody wrote in between) leaves every previously stored row in place.
C9_SequentialKeepsRows ==
    [][\A p \in Issuers :
          (gen[p].pc = "write" /\ gen'[p].pc = "done" /\ gen[p].seen = tokFile.rows)
              => \A i \in DOMAIN tokFile.rows :
                    /\ i \in DOMAIN tokFile'.rows
                    /\ tokFile'.rows[i] = tokFile.rows[i]]_vars

\* C9, interleaved: two issuances have both returned a token, the registry holds
\* only one of the two, and the lost token fails validation.
C9_LostUpdate ==
    \E j, k \in DOMAIN issued :
        /\ issued[j].token # issued[k].token
        /\ \E i \in DOMAIN tokFile.rows : tokFile.rows[i].token = issued[k].token
        /\ ~\E i \in DOMAIN tokFile.rows : tokFile.rows[i].token = issued[j].token
        /\ val.called /\ val.token = issued[j].token /\ val.result = <<>>

-----------------------------------------------------------------------------
(* The script: one run per request or widget interaction *)

OwnerKeys == {DefaultOwnerKey, <<"a">>}

InitApp ==
    /\ masterFile \in {File(t) : t \in StoredTables}
    /\ tokFile \in {File(r) : r \in StoredRegistries}
    /\ OWNER_KEY \in OwnerKeys
    /\ now = 1
    /\ run = NoRun
    /\ gen = [p \in Issuers |-> Idle]
    /\ val = NoCall
    /\ issued = <<>>
    /\ edited = FALSE

\* The script runs to completion before the next interaction is taken
Ready == run.status \in {"none", "ended"}

\* A copy of RunDashboard that writes the edited table back to the order file
RunDashboardPersist(qs, w) ==
    /\ Ready
    /\ tokFile' = seed_tokens(tokFile)
    /\ w.wh \subseteq Unique(load_master(masterFile), "Warehouse")
    /\ w.stt \subseteq Unique(load_master(masterFile), "Status")
    /\ w.pr \subseteq Unique(load_master(masterFile), "Priority")
    /\ run' = script_run(qs, "Dashboard", w, OWNER_KEY, masterFile,
                         tokFile'.rows, now)
    /\ masterFile' = IF run'.msg = "Updated" THEN File(run'.df) ELSE masterFile
    /\ edited' = (edited \/ run'.msg = "Updated")
    /\ UNCHANGED <<OWNER_KEY, now, gen, val, issued>>

\* line 121, then the script from line 122 with the page "Dashboard". The
\* script never writes MASTER_FILE after seeding it.
RunDashboard(qs, w) ==
    /\ Ready
    /\ \E draw \in DrawsNeeded(masterFile) :
          masterFile' = seed_master(masterFile, draw, now)
    /\ tokFile' = seed_tokens(tokFile)
    /\ w.wh \subseteq Unique(load_master(masterFile'), "Warehouse")
    /\ w.stt \subseteq Unique(load_master(masterFile'), "Status")
    /\ w.pr \subseteq Unique(load_master(masterFile'), "Priority")
    /\ run' = script_run(qs, "Dashboard", w, OWNER_KEY, masterFile',
                         tokFile'.rows, now)
    /\ edited' = (edited \/ run'.msg = "Updated")
    /\ UNCHANGED <<OWNER_KEY, now, gen, val, issued>>

\* the same with the page "FAQ"
RunFaq(qs) ==
    /\ Ready
    /\ \E draw \in DrawsNeeded(masterFile) :
          masterFile' = seed_master(masterFile, draw, now)
    /\ tokFile' = seed_tokens(tokFile)
    /\ run' = script_run(qs, "FAQ", NoWidgets, OWNER_KEY, masterFile',
                         tokFile'.rows, now)
    /\ UNCHANGED <<OWNER_KEY, now, gen, val, issued, edited>>

\* The run ends: its locals (df among them) are dropped
EndRun ==
    /\ run.status \in {"ok", "exception"}
    /\ run' = [NoRun EXCEPT !.status = "ended"]
    /\ UNCHANGED <<masterFile, tokFile, OWNER_KEY, now, gen, val, issued, edited>>

\* Inputs of a run
AdminParams ==
    {NoParam, Param(<<>>), Param(<<"a">>), Param(<<"a", "b">>), Param(DefaultOwnerKey)}
TokenParams == {NoParam, Param(<<>>), Param(Tok(<<"a">>)), Param(Tok(<<"c">>))}
QueryStrings == [admin : AdminParams, token : TokenParams]

SearchInputs == {<<>>, <<"V">>, <<".">>, <<"1">>}
UpdateOids == {<<"V", "1">>, <<"Z", "9">>}
NewStatuses == {"Processing", "Shipped"}
NewInvoices == {"", "INV9"}

Filters(whs, stts, prs, searches) ==
    [wh : whs, stt : stts, pr : prs, search : searches]

Updates ==
    [click : {TRUE}, upd_oid : UpdateOids, new_status : NewStatuses,
     new_inv : NewInvoices]
    \cup [click : {FALSE}, upd_oid : {<<>>}, new_status : {"Open"}, new_inv : {""}]

Widgets(f, u) ==
    [wh |-> f.wh, stt |-> f.stt, pr |-> f.pr, search |-> f.search,
     click |-> u.click, upd_oid |-> u.upd_oid, new_status |-> u.new_status,
     new_inv |-> u.new_inv]

Options(f, col) == Unique(load_master(f), col)

GuestOrAdminA == [admin : {NoParam, Param(<<"a">>)}, token : {NoParam}]

\* The dashboard under every filter selection, as guest and with ?admin=a
DashRuns ==
    /\ Ready
    /\ \E qs \in GuestOrAdminA,
          f \in Filters(SUBSET Options(masterFile, "Warehouse"),
                        SUBSET Options(masterFile, "Status"),
                        SUBSET Options(masterFile, "Priority"), SearchInputs),
          u \in Updates : RunDashboard(qs, Widgets(f, u))

FaqRuns(qss) == Ready /\ \E qs \in qss : RunFaq(qs)

NextDash == DashRuns \/ FaqRuns(GuestOrAdminA) \/ EndRun

\* The dashboard is explored with an empty registry and the one-character secret
InitDash == InitApp /\ tokFile = File(<<>>) /\ OWNER_KEY = <<"a">>

SpecDash == InitDash /\ [][NextDash]_vars

\* Every query string, the filters left at their defaults (everything selected)
AccessRuns ==
    /\ Ready
    /\ \E qs \in QueryStrings, u \in Updates :
          RunDashboard(qs, Widgets(
              [wh |-> Options(masterFile, "Warehouse"),
               stt |-> Options(masterFile, "Status"),
               pr |-> Options(masterFile, "Priority"),
               search |-> <<>>], u))

NextAccess == AccessRuns \/ FaqRuns(QueryStrings) \/ EndRun

SpecAccess == InitApp /\ [][NextAccess]_vars

-----------------------------------------------------------------------------
(* Properties of a run *)

Rendered == run.status = "ok" /\ run.page = "Dashboard"

\* C3: the resolver yields owner if and only if the admin parameter's value
\* equals the owner secret; otherwise client, with the row's role and company,
\* if and only if the token parameter's value validates; otherwise guest,
\* viewer, default company.
C3_Resolver ==
    run.status = "ok" =>
        LET admin_ok == run.qs.admin.present /\ run.qs.admin.value = OWNER_KEY
            info == IF run.qs.token.present
                    THEN validate_token(tokFile.rows, run.qs.token.value, now)
                    ELSE <<>>
        IN  IF admin_ok
            THEN run.mode = "owner" /\ run.role = "owner"
            ELSE IF info # <<>>
            THEN /\ run.mode = "client"
                 /\ run.role = info[1].role
                 /\ run.company = info[1].company
            ELSE /\ run.mode = "guest"
                 /\ run.role = "viewer"
                 /\ run.company = CLIENT_COMPANY

\* C10: the update form is there only for editor and owner; the role is other
\* than viewer only if the request carried the owner secret or a token that has
\* a row in the registry; a request with neither is guest, viewer, and changes
\* no order record.
C10_Gate ==
    run.status = "ok" =>
        LET secret == run.qs.admin.present /\ run.qs.admin.value = OWNER_KEY
            known == /\ run.qs.token.present
                     /\ \E i \in DOMAIN tokFile.rows :
                           tokFile.rows[i].token = run.qs.token.value
        IN  /\ run.form => run.role \in {"editor", "owner"}
            /\ run.msg # "none" => run.form
            /\ run.role # "viewer" => secret \/ known
            /\ ~(secret \/ known) =>
                  /\ run.mode = "guest" /\ run.role = "viewer"
                  /\ run.df = run.df_all

\* C4: Apply Update by an editor or owner. If a record has exactly that OrderID,
\* one such record gets the new Status and InvoiceNo, the role as UpdatedBy and
\* the time as UpdatedAt, keeps its other fields, and every other record is as
\* loaded; if none has it, no record changes and the message is not-found.
C4_ApplyUpdate ==
    (Rendered /\ run.w.click /\ run.role \in {"editor", "owner"}) =>
        /\ Len(run.df) = Len(run.df_all)
        /\ IF \E i \in DOMAIN run.df_all : run.df_all[i].OrderID = run.w.upd_oid
           THEN /\ run.msg = "Updated"
                /\ \E i \in DOMAIN run.df_all :
                      /\ run.df_all[i].OrderID = run.w.upd_oid
                      /\ run.df[i].Status = run.w.new_status
                      /\ run.df[i].InvoiceNo = run.w.new_inv
                      /\ run.df[i].UpdatedBy = run.role
                      /\ run.df[i].UpdatedAt = now
                      /\ run.df[i].OrderID = run.df_all[i].OrderID
                      /\ run.df[i].Warehouse = run.df_all[i].Warehouse
                      /\ run.df[i].Customer = run.df_all[i].Customer
                      /\ run.df[i].Priority = run.df_all[i].Priority
                      /\ \A j \in DOMAIN run.df_all :
                            j # i => run.df[j] = run.df_all[j]
           ELSE /\ run.msg = "Order not found"
                /\ run.df = run.df_all

\* An update applied to a table in which two records have the OrderID
C4_Witness ==
    /\ Rendered /\ run.msg = "Updated"
    /\ Len(run.df_all) = 2
    /\ run.df_all[1].OrderID = run.w.upd_oid
    /\ run.df_all[2].OrderID = run.w.upd_oid
    /\ run.df[1] # run.df_all[1]
    /\ run.df[2] = run.df_all[2]

\* C5: no run writes the order file, whatever the role and whether or not an
\* update was applied, and the table a run loads is the stored table as
\* load_master reads it, with none of the earlier edits.
C5_NoWriteBack ==
    [][/\ masterFile' = masterFile
       /\ run'.status = "ok" => run'.df_all = load_master(masterFile)]_vars

\* A run after one that applied an update, showing the stored rows
C5_Witness ==
    /\ edited /\ Rendered /\ run.msg = "none"
    /\ run.df_all # <<>>
    /\ run.df_all = load_master(masterFile)
    /\ \A i \in DOMAIN run.df_all : run.df_all[i].UpdatedBy = "seed"

\* C6: the four KPI counts are the numbers of records with that status in the
\* full loaded table, whatever the filters and the search string.
C6_Kpis ==
    Rendered =>
        /\ run.kpi["Open"] =
              Cardinality({i \in DOMAIN run.df_all : run.df_all[i].Status = "Open"})
        /\ run.kpi["Processing"] =
              Cardinality({i \in DOMAIN run.df_all : run.df_all[i].Status = "Processing"})
        /\ run.kpi["Shipped"] =
              Cardinality({i \in DOMAIN run.df_all : run.df_all[i].Status = "Shipped"})
        /\ run.kpi["Invoiced"] =
              Cardinality({i \in DOMAIN run.df_all : run.df_all[i].Status = "Invoiced"})

\* Filters that hide a Shipped record the KPI still counts
C6_Witness ==
    /\ Rendered
    /\ run.kpi["Shipped"] = 1
    /\ run.w.stt = {"Open"}
    /\ Len(run.q) = 1 /\ Len(run.df_all) = 2

\* s holds pat as a substring
IsSubstring(s, pat) ==
    \E i \in 1..(Len(s) + 1) :
        /\ i + Len(pat) - 1 <= Len(s)
        /\ \A k \in DOMAIN pat : s[i + k - 1] = pat[k]

\* C7: the displayed rows are exactly the records whose Warehouse, Status and
\* Priority are in the three selections and, when the search string is not
\* empty, whose OrderID holds it as a substring.
C7_Displayed ==
    Rendered =>
        run.q = SelectSeq(run.df_all,
                    LAMBDA r : /\ r.Warehouse \in run.w.wh
                               /\ r.Status \in run.w.stt
                               /\ r.Priority \in run.w.pr
                               /\ (run.w.search # <<>>
                                      => IsSubstring(r.OrderID, run.w.search)))

====
